---- MODULE Spec2Model ----
(***************************************************************************)
(* Model of the developer-web MCP server (src/src/index.ts): the tool      *)
(* handlers registered with server.addTool, each run as the sequence of    *)
(* steps between its await points.  A behaviour is one invocation: the     *)
(* handlers keep nothing from one call to the next.                        *)
(*                                                                         *)
(* The filesystem and the git subprocess are the environment.  A handler   *)
(* sees of them only the answers to the readdir, stat, glob, readFile and  *)
(* exec calls it makes, and within one call it asks about a path or runs   *)
(* a query at most once; so every answer is chosen, from all the answers   *)
(* the environment can give, at the step that awaits it, and is recorded   *)
(* in obs.  Every filesystem and repository is covered that way: the part  *)
(* a handler never asks about cannot reach its result.                     *)
(*                                                                         *)
(* Spec is that model of single invocations, the process having started.  *)
(* SpecServer is the process from its launch: the startup statements of   *)
(* index.ts, then invocations of get_project_structure that overlap on a  *)
(* tree fixed at launch.                                                   *)
(***************************************************************************)
EXTENDS Integers, Sequences, FiniteSets, TLC

VARIABLES
    tool,       \* name of the handler being executed, "none" before a call
    pc,         \* "idle" before the invocation, then an await point, then "done"
    args,       \* the validated parameters of the invocation
    stack,      \* get_project_structure: the analyzeDir activations
    loc,        \* the local variables of the other handlers
    startKind,  \* what the starting directory is on disk
    revealed,   \* number of directory entries the filesystem has shown
    obs,        \* record of what the environment answered during the call
    result,     \* what the handler produced: an envelope, or a throw
    proc,       \* the process: its startup sequence, environment and cwd
    conc        \* invocations in flight at the same time, and their tree

vars == <<tool, pc, args, stack, loc, startKind, revealed, obs, result, proc, conc>>

----------------------------------------------------------------------------
(* Bounds of the exploration *)

\* entries the filesystem shows during one walk (all directories together)
MaxEntries == 4
\* largest maxDepth argument tried
MaxDepthArg == 3
\* changed files a git query reports
MaxFiles == 2
\* commits a git log reports
MaxCommits == 1
\* paths one glob call matches
MaxMatches == 2
\* files of the tree the test-file globs run over
MaxTestFiles == 2
\* entries of the tree that concurrent invocations walk
MaxNodes == 2

----------------------------------------------------------------------------
(* Strings are sequences of one-character strings *)

NodeModules == <<"n","o","d","e","_","m","o","d","u","l","e","s">>

\* entry names a directory listing can hold
Names == { <<"a">>, <<"b">>, <<".", "a">>, NodeModules }

\* a path is the sequence of its segments; join(dir, item)
Join(dir, item) == Append(dir, item)

\* the directory arguments tried: ".", "a", ".a"
DirArgs == { <<>>, << <<"a">> >>, << <<".", "a">> >> }

StartKinds == {"dir", "file", "missing", "locked"}

\* item.startsWith(".")
StartsWithDot(item) == Len(item) >= 1 /\ item[1] = "."

\* the test without its node_modules half
IsExcluded_DotOnly(item) == StartsWithDot(item)

\* the exclusion test of the loop
IsExcluded(item) == StartsWithDot(item) \/ item = NodeModules

\* the guard tested one level too late
DepthReached_OffByOne(currentDepth, maxDepth) == currentDepth > maxDepth

\* the recursion guard of analyzeDir
DepthReached(currentDepth, maxDepth) == currentDepth >= maxDepth

\* the recursive call made with the depth of its caller
NextDepth_Same(currentDepth) == currentDepth

\* the depth handed to the recursive call
NextDepth(currentDepth) == currentDepth + 1

\* one space per level instead of two
Indent_Single(currentDepth) == currentDepth

\* "  ".repeat(currentDepth): the number of spaces
Indent(currentDepth) == 2 * currentDepth

\* the line of a directory; path is the itemPath it was emitted for
DirLine(currentDepth, item, itemPath) ==
    [indent |-> Indent(currentDepth), marker |-> "dir", name |-> item,
     slash |-> TRUE, path |-> itemPath]

\* the line of a plain file
FileLine(currentDepth, item, itemPath) ==
    [indent |-> Indent(currentDepth), marker |-> "file", name |-> item,
     slash |-> FALSE, path |-> itemPath]

----------------------------------------------------------------------------
(* Envelopes *)

Envelope(text) == [content |-> << [type |-> "text", text |-> text] >>]

NoEnvelope == [content |-> <<>>]

Pending == [outcome |-> "pending", envelope |-> NoEnvelope]

\* a handler's return statement
Returned(text) == [outcome |-> "returned", envelope |-> Envelope(text)]

\* a catch block that throws the error on
Rethrown(prefix, message) == [outcome |-> "thrown", envelope |-> NoEnvelope]

\* the catch block of a handler: `${prefix}${error.message}`
Caught(prefix, message) ==
    Returned([kind |-> "error", prefix |-> prefix, message |-> message])

\* the success text of get_project_structure
StructureText(directory, structure) ==
    [kind |-> "structure", directory |-> directory, lines |-> structure]

----------------------------------------------------------------------------
(* The environment's answers *)

RECURSIVE SeqsUpTo(_, _)
SeqsUpTo(S, n) ==
    IF n = 0 THEN { <<>> }
    ELSE LET shorter == SeqsUpTo(S, n - 1)
         IN  shorter \cup { Append(s, x) : s \in shorter, x \in S }

Distinct(s) == \A i, j \in 1..Len(s) : i # j => s[i] # s[j]

\* what readdir can list when the filesystem may still show k entries
Listings(k) == { s \in SeqsUpTo(Names, k) : Distinct(s) }

\* readdir of the starting directory
StartReaddir(kind, k) ==
    CASE kind = "dir"     -> { [ok |-> TRUE, items |-> s, error |-> ""] : s \in Listings(k) }
      [] kind = "file"    -> { [ok |-> FALSE, items |-> <<>>, error |-> "ENOTDIR"] }
      [] kind = "missing" -> { [ok |-> FALSE, items |-> <<>>, error |-> "ENOENT"] }
      [] kind = "locked"  -> { [ok |-> FALSE, items |-> <<>>, error |-> "EACCES"] }

\* readdir of a directory found during the walk
SubReaddir(k) ==
    { [ok |-> TRUE, items |-> s, error |-> ""] : s \in Listings(k) }
      \cup { [ok |-> FALSE, items |-> <<>>, error |-> "EACCES"] }

\* stat of an entry: a directory, a plain file, or a failure
StatAnswers ==
    { [ok |-> TRUE, isDirectory |-> TRUE, error |-> ""],
      [ok |-> TRUE, isDirectory |-> FALSE, error |-> ""],
      [ok |-> FALSE, isDirectory |-> FALSE, error |-> "ENOENT"],
      [ok |-> FALSE, isDirectory |-> FALSE, error |-> "EACCES"] }

----------------------------------------------------------------------------
(* get_project_structure *)

GpsPrefix == "Error getting project structure: "

\* nothing observed yet
NoObs ==
    [listed |-> {}, statted |-> {}, failure |-> "", emitted |-> 0,
     queries |-> <<>>, failed |-> {}, answers |-> <<>>,
     given |-> [none |-> TRUE], disk |-> {}]

NoLoc == [none |-> TRUE]

\* a stat answered, and the loop appended the entry's line
Statted(itemPath, isDirectory) ==
    [obs EXCEPT !.statted = @ \cup { [path |-> itemPath, isDirectory |-> isDirectory] },
                !.emitted = @ + 1]

Frame(dir, currentDepth) ==
    [dir |-> dir, currentDepth |-> currentDepth, at |-> "enter",
     items |-> <<>>, i |-> 1, result |-> <<>>]

Top == stack[Len(stack)]

SetTop(f) == [stack EXCEPT ![Len(stack)] = f]

\* analyzeDir returns text to its caller: the outer call site builds the
\* envelope, a recursive call site appends it and goes on with the loop
ReturnToCaller(text) ==
    IF Len(stack) = 1
    THEN /\ stack' = <<>>
         /\ pc' = "done"
         /\ result' = Returned(StructureText(args.directory, text))
    ELSE LET caller == stack[Len(stack) - 1]
         IN /\ stack' = SubSeq(stack, 1, Len(stack) - 2)
                          \o << [caller EXCEPT !.result = @ \o text,
                                               !.i = @ + 1] >>
            /\ pc' = pc
            /\ result' = result

\* a catch block that answers with the tree rendered so far
GpsThrow_KeepsPartial(message) ==
    /\ stack' = <<>>
    /\ pc' = "done"
    /\ result' = Returned(StructureText(args.directory, stack[1].result))
    /\ obs' = [obs EXCEPT !.failure = message, !.failed = @ \cup {"fs"}]

\* a rejected await unwinds every activation into execute's catch block
GpsThrow(message) ==
    /\ stack' = <<>>
    /\ pc' = "done"
    /\ result' = Caught(GpsPrefix, message)
    /\ obs' = [obs EXCEPT !.failure = message, !.failed = @ \cup {"fs"}]

\* execute: the call of analyzeDir(directory)
GetProjectStructure ==
    /\ pc = "idle"
    /\ \E directory \in DirArgs, maxDepth \in (-1)..MaxDepthArg, kind \in StartKinds :
         /\ tool' = "get_project_structure"
         /\ args' = [directory |-> directory, maxDepth |-> maxDepth]
         /\ startKind' = kind
         /\ stack' = << Frame(directory, 0) >>
    /\ pc' = "analyzeDir"
    /\ revealed' = 0
    /\ obs' = NoObs
    /\ loc' = NoLoc
    /\ result' = Pending
    /\ UNCHANGED <<proc, conc>>

\* analyzeDir up to the end of its readdir
AnalyzeDirEnter ==
    /\ pc = "analyzeDir"
    /\ Top.at = "enter"
    /\ IF DepthReached(Top.currentDepth, args.maxDepth)
       THEN /\ ReturnToCaller(<<>>)
            /\ UNCHANGED <<revealed, obs>>
       ELSE \E r \in IF Len(stack) = 1
                     THEN StartReaddir(startKind, MaxEntries - revealed)
                     ELSE SubReaddir(MaxEntries - revealed) :
              IF r.ok
              THEN /\ stack' = SetTop([Top EXCEPT !.items = r.items, !.at = "loop"])
                   /\ revealed' = revealed + Len(r.items)
                   /\ obs' = [obs EXCEPT !.listed = @ \cup
                                   { [dir |-> Top.dir, items |-> r.items] }]
                   /\ UNCHANGED <<pc, result>>
              ELSE /\ GpsThrow(r.error)
                   /\ UNCHANGED revealed
    /\ UNCHANGED <<tool, args, loc, startKind, proc, conc>>

\* one turn of the for loop, or the return after the last item
AnalyzeDirLoop ==
    /\ pc = "analyzeDir"
    /\ Top.at = "loop"
    /\ IF Top.i > Len(Top.items)
       THEN /\ ReturnToCaller(Top.result)
            /\ UNCHANGED obs
       ELSE LET item == Top.items[Top.i]
                itemPath == Join(Top.dir, item)
            IN IF IsExcluded(item)
               THEN /\ stack' = SetTop([Top EXCEPT !.i = @ + 1])
                    /\ UNCHANGED <<pc, result, obs>>
               ELSE \E stats \in StatAnswers :
                      IF ~stats.ok
                      THEN GpsThrow(stats.error)
                      ELSE IF stats.isDirectory
                      THEN /\ stack' = SetTop([Top EXCEPT !.result =
                                  Append(@, DirLine(Top.currentDepth, item, itemPath))])
                                \o << Frame(itemPath, NextDepth(Top.currentDepth)) >>
                           /\ obs' = Statted(itemPath, TRUE)
                           /\ UNCHANGED <<pc, result>>
                      ELSE /\ stack' = SetTop([Top EXCEPT !.result =
                                  Append(@, FileLine(Top.currentDepth, item, itemPath)),
                                  !.i = @ + 1])
                           /\ obs' = Statted(itemPath, FALSE)
                           /\ UNCHANGED <<pc, result>>
    /\ UNCHANGED <<tool, args, loc, startKind, revealed, proc, conc>>

----------------------------------------------------------------------------
(* Text helpers of the git handlers *)

IsSpace(c) == c \in {" ", "\n", "\t"}

RECURSIVE TrimStart(_)
TrimStart(s) == IF s # <<>> /\ IsSpace(Head(s)) THEN TrimStart(Tail(s)) ELSE s

RECURSIVE TrimEnd(_)
TrimEnd(s) ==
    IF s # <<>> /\ IsSpace(s[Len(s)]) THEN TrimEnd(SubSeq(s, 1, Len(s) - 1)) ELSE s

\* String.prototype.trim
Trim(s) == TrimEnd(TrimStart(s))

RECURSIVE SplitFrom(_, _, _, _)
\* the pieces of s from position k on, cur being the piece under construction
SplitFrom(s, sep, k, cur) ==
    IF k > Len(s) THEN << cur >>
    ELSE IF s[k] = sep THEN << cur >> \o SplitFrom(s, sep, k + 1, <<>>)
    ELSE SplitFrom(s, sep, k + 1, Append(cur, s[k]))

\* String.prototype.split with a one-character separator
Split(s, sep) == SplitFrom(s, sep, 1, <<>>)

RECURSIVE FilterNonEmpty(_)
\* .filter(x => x.length > 0)
FilterNonEmpty(parts) ==
    IF parts = <<>> THEN <<>>
    ELSE (IF Len(Head(parts)) > 0 THEN << Head(parts) >> ELSE <<>>)
           \o FilterNonEmpty(Tail(parts))

\* stdout.trim().split('\n').filter(line => line.length > 0)
OutputLines(stdout) == FilterNonEmpty(Split(Trim(stdout), "\n"))

----------------------------------------------------------------------------
(* The git subprocess *)

Master == <<"m","a","s","t","e","r">>

\* names of changed files; a path may hold blanks anywhere
FileNames == { <<"a">>, <<"a", " ", "b">>, <<" ", "a">>, <<"b", " ">> }

RECURSIVE LinesOf(_)
\* git prints one entry per line, each ended by a newline
LinesOf(entries) ==
    IF entries = <<>> THEN <<>>
    ELSE Head(entries) \o <<"\n">> \o LinesOf(Tail(entries))

GitFailure(message) == [ok |-> FALSE, stdout |-> <<>>, entries |-> <<>>, error |-> message]

GitOutput(entries) ==
    [ok |-> TRUE, stdout |-> LinesOf(entries), entries |-> entries, error |-> ""]

\* git branch --show-current: a branch name, or nothing on a detached HEAD
BranchAnswers ==
    { GitOutput(<< <<"f">> >>), GitOutput(<<>>), GitFailure("not a git repository") }

\* git diff --name-only <branch>...HEAD
FilesAnswers ==
    { GitOutput(fs) : fs \in { s \in SeqsUpTo(FileNames, MaxFiles) : Distinct(s) } }
      \cup { GitFailure("bad revision") }

\* git log --oneline <branch>..HEAD
LogAnswers ==
    { GitOutput(cs) : cs \in { s \in SeqsUpTo({ <<"1", " ", "x">>, <<"2", " ", "y">> },
                                              MaxCommits) : Distinct(s) } }
      \cup { GitFailure("bad revision") }

\* git diff <branch>...HEAD: the raw text
DiffAnswers ==
    { [ok |-> TRUE, stdout |-> <<>>, entries |-> <<>>, error |-> ""],
      [ok |-> TRUE, stdout |-> <<"+", "a", "\n">>, entries |-> <<>>, error |-> ""],
      GitFailure("bad revision") }

\* the exec of one query was awaited and answered
Asked(query, r) ==
    [obs EXCEPT !.queries = Append(@, query),
                !.answers = Append(@, r),
                !.failed = IF r.ok THEN @ ELSE @ \cup {query}]

----------------------------------------------------------------------------
(* get_git_diff *)

GgdPrefix == "Error getting git diff: "

Segment(seg, text, target, n) == [seg |-> seg, text |-> text, target |-> target, n |-> n]

\* "# Git Diff: ${currentBranchName} -> ${branch}"
HeaderSegment(currentBranchName, branch) == Segment("header", currentBranchName, branch, 0)

\* "**Files Changed:** ${changedFiles.length}"
CountSegment(changedFiles) == Segment("count", <<>>, <<>>, Len(changedFiles))

\* a "## ..." heading, name being its text
Title(name) == Segment(name, <<>>, <<>>, 0)

Bullets(kind, entries) == [k \in 1..Len(entries) |-> Segment(kind, entries[k], <<>>, 0)]

\* the "## Changed Files" section, present only for a non-empty list
ChangedFilesSection(changedFiles) ==
    IF Len(changedFiles) > 0
    THEN << Title("## Changed Files") >> \o Bullets("file", changedFiles)
    ELSE <<>>

\* the "## Commits" section, present only for a non-empty list
CommitsSection(commitMessages) ==
    IF Len(commitMessages) > 0
    THEN << Title("## Commits") >> \o Bullets("commit", commitMessages)
    ELSE <<>>

\* the "## Diff" section, present only when diff.trim() is not empty
DiffSection(diff) ==
    IF Trim(diff) # <<>>
    THEN << Title("## Diff"), Segment("diff", diff, <<>>, 0) >>
    ELSE <<>>

\* the inner catch of the diff query: "**Error getting diff:** ${message}"
DiffErrorNote(message) == << Segment("diffError", <<>>, <<>>, 0) >>

\* the inner catch of the commit query only warns on the console
CommitsErrorNote(message) == <<>>

DiffText(output) == [kind |-> "gitdiff", output |-> output]

\* a handler that runs both optional queries whatever its flags say
GgdContinue_IgnoresFlags(after, output) ==
    IF after = "files"
    THEN /\ pc' = "ggd_log"
         /\ loc' = [loc EXCEPT !.output = output]
         /\ result' = result
    ELSE IF after = "log"
    THEN /\ pc' = "ggd_diff"
         /\ loc' = [loc EXCEPT !.output = output]
         /\ result' = result
    ELSE /\ pc' = "done"
         /\ loc' = [loc EXCEPT !.output = output]
         /\ result' = Returned(DiffText(output))

\* what follows the changed-file list, the commit block or the diff block
GgdContinue(after, output) ==
    IF after = "files" /\ args.includeCommits
    THEN /\ pc' = "ggd_log"
         /\ loc' = [loc EXCEPT !.output = output]
         /\ result' = result
    ELSE IF after \in {"files", "log"} /\ args.includeDiff
    THEN /\ pc' = "ggd_diff"
         /\ loc' = [loc EXCEPT !.output = output]
         /\ result' = result
    ELSE /\ pc' = "done"
         /\ loc' = [loc EXCEPT !.output = output]
         /\ result' = Returned(DiffText(output))

\* an outer catch block that answers with the report built so far
GgdThrow_KeepsReport(message) ==
    /\ pc' = "done"
    /\ result' = Returned(DiffText(loc.output))
    /\ loc' = loc

\* the outer catch block
GgdThrow(message) ==
    /\ pc' = "done"
    /\ result' = Caught(GgdPrefix, message)
    /\ loc' = loc

\* the commit query left outside a try of its own
GgdLogCatch_Fatal(message) == GgdThrow(message)

\* the catch of the commit query: a console warning, the report goes on
GgdLogCatch(message) == GgdContinue("log", loc.output \o CommitsErrorNote(message))

\* a diff failure that ends the call
GgdDiffCatch_Fatal(message) == GgdThrow(message)

\* the catch of the diff query: a note in the report, which is returned
GgdDiffCatch(message) == GgdContinue("diff", loc.output \o DiffErrorNote(message))

GetGitDiff ==
    /\ pc = "idle"
    /\ \E includeDiff \in BOOLEAN, includeCommits \in BOOLEAN :
         args' = [branch |-> Master, includeDiff |-> includeDiff,
                  includeCommits |-> includeCommits]
    /\ tool' = "get_git_diff"
    /\ pc' = "ggd_branch"
    /\ loc' = [currentBranchName |-> <<>>, changedFiles |-> <<>>, output |-> <<>>]
    /\ obs' = NoObs
    /\ result' = Pending
    /\ UNCHANGED <<stack, startKind, revealed, proc, conc>>

\* git branch --show-current
GgdBranch ==
    /\ pc = "ggd_branch"
    /\ \E r \in BranchAnswers :
         /\ obs' = Asked("branch", r)
         /\ IF r.ok
            THEN /\ loc' = [loc EXCEPT !.currentBranchName = Trim(r.stdout)]
                 /\ pc' = "ggd_files"
                 /\ result' = result
            ELSE GgdThrow(r.error)
    /\ UNCHANGED <<tool, args, stack, startKind, revealed, proc, conc>>

\* git diff --name-only, then the header, the count and the file list
GgdFiles ==
    /\ pc = "ggd_files"
    /\ \E r \in FilesAnswers :
         /\ obs' = Asked("files", r)
         /\ IF r.ok
            THEN LET changedFiles == OutputLines(r.stdout)
                 IN GgdContinue("files",
                        << HeaderSegment(loc.currentBranchName, args.branch),
                           CountSegment(changedFiles) >>
                          \o ChangedFilesSection(changedFiles))
            ELSE GgdThrow(r.error)
    /\ UNCHANGED <<tool, args, stack, startKind, revealed, proc, conc>>

\* git log --oneline inside its own try
GgdLog ==
    /\ pc = "ggd_log"
    /\ \E r \in LogAnswers :
         /\ obs' = Asked("log", r)
         /\ IF r.ok
            THEN GgdContinue("log", loc.output \o CommitsSection(OutputLines(r.stdout)))
            ELSE GgdLogCatch(r.error)
    /\ UNCHANGED <<tool, args, stack, startKind, revealed, proc, conc>>

\* git diff inside its own try
GgdDiff ==
    /\ pc = "ggd_diff"
    /\ \E r \in DiffAnswers :
         /\ obs' = Asked("diff", r)
         /\ IF r.ok
            THEN GgdContinue("diff", loc.output \o DiffSection(r.stdout))
            ELSE GgdDiffCatch(r.error)
    /\ UNCHANGED <<tool, args, stack, startKind, revealed, proc, conc>>

----------------------------------------------------------------------------
(* Filesystem answers of the glob-based handlers *)

\* paths a glob can match
GlobFiles == {"f1", "f2"}

FsFailure(message) == [ok |-> FALSE, files |-> <<>>, error |-> message]

\* glob(pattern, {cwd}): the matches in the order glob yields them, or a rejection
GlobAnswers ==
    { [ok |-> TRUE, files |-> fs, error |-> ""] :
        fs \in { s \in SeqsUpTo(GlobFiles, MaxMatches) : Distinct(s) } }
      \cup { FsFailure("EACCES") }

\* a filesystem step was awaited; a rejection is remembered
FsAsked(step, r) ==
    [obs EXCEPT !.queries = Append(@, step),
                !.answers = Append(@, r),
                !.failed = IF r.ok THEN @ ELSE @ \cup {"fs"},
                !.failure = IF r.ok THEN @ ELSE r.error]

\* the catch block of a handler: it returns the error text
HandlerCatch(prefix, message) ==
    /\ pc' = "done"
    /\ result' = Caught(prefix, message)
    /\ loc' = loc

\* the return statement at the end of a try block
HandlerReturn(text) ==
    /\ pc' = "done"
    /\ result' = Returned(text)
    /\ loc' = loc

\* `Found ${n} ...` followed by one "- item" line per entry
FoundText(kind, items) == [kind |-> kind, count |-> Len(items), items |-> items]

----------------------------------------------------------------------------
(* search_files *)

SfPrefix == "Error searching files: "

\* directory arguments: a single directory and a comma-delimited list
DirectoryArgs == { <<"a">>, <<"a", ",", "b">>, <<"a", ",", " ", "b">> }

SearchFiles ==
    /\ pc = "idle"
    /\ \E directory \in DirectoryArgs :
         args' = [pattern |-> "*.tsx", directory |-> directory]
    /\ tool' = "search_files"
    /\ pc' = "sf_glob"
    /\ loc' = NoLoc
    /\ obs' = NoObs
    /\ result' = Pending
    /\ UNCHANGED <<stack, startKind, revealed, proc, conc>>

\* one glob under join(projectRoot, directory), then the answer
SfGlob ==
    /\ pc = "sf_glob"
    /\ \E r \in GlobAnswers :
         /\ obs' = FsAsked(<<"glob", args.directory>>, r)
         /\ IF r.ok
            THEN HandlerReturn(FoundText("files", r.files))
            ELSE HandlerCatch(SfPrefix, r.error)
    /\ UNCHANGED <<tool, args, stack, startKind, revealed, proc, conc>>

----------------------------------------------------------------------------
(* find_components *)

FcPrefix == "Error finding components: "

\* results pushed without their directory
Prefixed_NoDirectory(dir, files) ==
    [k \in 1..Len(files) |-> [dir |-> <<>>, file |-> files[k]]]

\* `${dir}/${file}`
Prefixed(dir, files) == [k \in 1..Len(files) |-> [dir |-> dir, file |-> files[k]]]

FindComponents ==
    /\ pc = "idle"
    /\ \E directory \in DirectoryArgs, name \in {"", "Button"} :
         /\ args' = [name |-> name, directory |-> directory]
         /\ loc' = [dirs |-> Split(directory, ","), k |-> 1, results |-> <<>>]
    /\ tool' = "find_components"
    /\ pc' = "fc_glob"
    /\ obs' = NoObs
    /\ result' = Pending
    /\ UNCHANGED <<stack, startKind, revealed, proc, conc>>

\* one turn of the loop over dirs: a glob under join(projectRoot, dir.trim())
FcGlob ==
    /\ pc = "fc_glob"
    /\ \E r \in GlobAnswers :
         LET dir == loc.dirs[loc.k]
             results == loc.results \o Prefixed(dir, r.files)
         IN /\ obs' = FsAsked(<<"glob", Trim(dir)>>, r)
            /\ IF ~r.ok
               THEN HandlerCatch(FcPrefix, r.error)
               ELSE IF loc.k < Len(loc.dirs)
               THEN /\ loc' = [loc EXCEPT !.k = @ + 1, !.results = results]
                    /\ UNCHANGED <<pc, result>>
               ELSE /\ pc' = "done"
                    /\ loc' = [loc EXCEPT !.k = @ + 1, !.results = results]
                    /\ result' = Returned(FoundText("components", results))
    /\ UNCHANGED <<tool, args, stack, startKind, revealed, proc, conc>>

----------------------------------------------------------------------------
(* get_graphql_schemas *)

GqPrefix == "Error getting GraphQL schemas: "

\* characters of a schema shown in the answer
SchemaShown == 500

\* lengths of the schema files tried
ContentLengths == {0, SchemaShown, SchemaShown + 1}

ReadAnswers ==
    { [ok |-> TRUE, length |-> n, error |-> ""] : n \in ContentLengths }
      \cup { [ok |-> FALSE, length |-> 0, error |-> "ENOENT"] }

\* content.slice(0, 500) and the marker of a cut
SchemaBlock(file, length) ==
    [file |-> file,
     shown |-> IF length > SchemaShown THEN SchemaShown ELSE length,
     marker |-> length > SchemaShown]

GetGraphqlSchemas ==
    /\ pc = "idle"
    /\ \E feature \in {"", "wallets"} : args' = [feature |-> feature]
    /\ tool' = "get_graphql_schemas"
    /\ pc' = "gq_glob"
    /\ loc' = [files |-> <<>>, k |-> 1, schemas |-> <<>>]
    /\ obs' = NoObs
    /\ result' = Pending
    /\ UNCHANGED <<stack, startKind, revealed, proc, conc>>

SchemasText(schemas) ==
    FoundText("schemas", [k \in 1..Len(schemas) |->
                             SchemaBlock(schemas[k].file, schemas[k].length)])

\* the glob of the .gql files
GqGlob ==
    /\ pc = "gq_glob"
    /\ \E r \in GlobAnswers :
         /\ obs' = FsAsked(<<"glob">>, r)
         /\ IF ~r.ok
            THEN HandlerCatch(GqPrefix, r.error)
            ELSE IF r.files = <<>>
            THEN HandlerReturn(SchemasText(<<>>))
            ELSE /\ loc' = [loc EXCEPT !.files = r.files]
                 /\ pc' = "gq_read"
                 /\ result' = result
    /\ UNCHANGED <<tool, args, stack, startKind, revealed, proc, conc>>

\* one turn of the loop: readFile of one schema
GqRead ==
    /\ pc = "gq_read"
    /\ \E r \in ReadAnswers :
         LET file == loc.files[loc.k]
             schemas == Append(loc.schemas, [file |-> file, length |-> r.length])
         IN /\ obs' = FsAsked(<<"readFile", file>>, r)
            /\ IF ~r.ok
               THEN HandlerCatch(GqPrefix, r.error)
               ELSE IF loc.k < Len(loc.files)
               THEN /\ loc' = [loc EXCEPT !.k = @ + 1, !.schemas = schemas]
                    /\ UNCHANGED <<pc, result>>
               ELSE /\ pc' = "done"
                    /\ loc' = [loc EXCEPT !.k = @ + 1, !.schemas = schemas]
                    /\ result' = Returned(SchemasText(schemas))
    /\ UNCHANGED <<tool, args, stack, startKind, revealed, proc, conc>>

----------------------------------------------------------------------------
(* find_test_files *)

TfPrefix == "Error finding test files: "

TestTypes == {"unit", "integration", "e2e", "all"}

\* a switch whose "all" leaves the e2e directories out
PatternsFor_AllWithoutE2e(type) ==
    CASE type = "unit" ->
           \* **/*.test.ts, **/*.test.tsx, **/*.spec.ts, **/*.spec.tsx
           << << "*", "*", "/", "*", ".", "t", "e", "s", "t", ".", "t", "s" >>,
              << "*", "*", "/", "*", ".", "t", "e", "s", "t", ".", "t", "s", "x" >>,
              << "*", "*", "/", "*", ".", "s", "p", "e", "c", ".", "t", "s" >>,
              << "*", "*", "/", "*", ".", "s", "p", "e", "c", ".", "t", "s", "x" >> >>
      [] type = "integration" ->
           \* **/*.integration.test.ts, **/*.integration.test.tsx
           << << "*", "*", "/", "*", ".", "i", "n", "t", "e", "g", "r", "a", "t", "i", "o", "n", ".", "t", "e", "s", "t", ".", "t", "s" >>,
              << "*", "*", "/", "*", ".", "i", "n", "t", "e", "g", "r", "a", "t", "i", "o", "n", ".", "t", "e", "s", "t", ".", "t", "s", "x" >> >>
      [] type = "e2e" ->
           \* **/*.e2e.test.ts, **/*.e2e.test.tsx, **/e2e/**/*.ts
           << << "*", "*", "/", "*", ".", "e", "2", "e", ".", "t", "e", "s", "t", ".", "t", "s" >>,
              << "*", "*", "/", "*", ".", "e", "2", "e", ".", "t", "e", "s", "t", ".", "t", "s", "x" >>,
              << "*", "*", "/", "e", "2", "e", "/", "*", "*", "/", "*", ".", "t", "s" >> >>
      [] type = "all" ->
           \* **/*.test.*, **/*.spec.*
           << << "*", "*", "/", "*", ".", "t", "e", "s", "t", ".", "*" >>,
              << "*", "*", "/", "*", ".", "s", "p", "e", "c", ".", "*" >> >>

\* the switch over type; a pattern is the sequence of its characters
PatternsFor(type) ==
    CASE type = "unit" ->
           \* **/*.test.ts, **/*.test.tsx, **/*.spec.ts, **/*.spec.tsx
           << << "*", "*", "/", "*", ".", "t", "e", "s", "t", ".", "t", "s" >>,
              << "*", "*", "/", "*", ".", "t", "e", "s", "t", ".", "t", "s", "x" >>,
              << "*", "*", "/", "*", ".", "s", "p", "e", "c", ".", "t", "s" >>,
              << "*", "*", "/", "*", ".", "s", "p", "e", "c", ".", "t", "s", "x" >> >>
      [] type = "integration" ->
           \* **/*.integration.test.ts, **/*.integration.test.tsx
           << << "*", "*", "/", "*", ".", "i", "n", "t", "e", "g", "r", "a", "t", "i", "o", "n", ".", "t", "e", "s", "t", ".", "t", "s" >>,
              << "*", "*", "/", "*", ".", "i", "n", "t", "e", "g", "r", "a", "t", "i", "o", "n", ".", "t", "e", "s", "t", ".", "t", "s", "x" >> >>
      [] type = "e2e" ->
           \* **/*.e2e.test.ts, **/*.e2e.test.tsx, **/e2e/**/*.ts
           << << "*", "*", "/", "*", ".", "e", "2", "e", ".", "t", "e", "s", "t", ".", "t", "s" >>,
              << "*", "*", "/", "*", ".", "e", "2", "e", ".", "t", "e", "s", "t", ".", "t", "s", "x" >>,
              << "*", "*", "/", "e", "2", "e", "/", "*", "*", "/", "*", ".", "t", "s" >> >>
      [] type = "all" ->
           \* **/*.test.*, **/*.spec.*, **/e2e/**/*
           << << "*", "*", "/", "*", ".", "t", "e", "s", "t", ".", "*" >>,
              << "*", "*", "/", "*", ".", "s", "p", "e", "c", ".", "*" >>,
              << "*", "*", "/", "e", "2", "e", "/", "*", "*", "/", "*" >> >>

\* paths of the project tree the test-file globs run over, each the
\* sequence of its characters:
\*   a.test.ts, a.spec.tsx, a.integration.test.ts, e2e/b.ts, e2e/a.e2e.test.ts, e2e/c.md, .test.ts, a.ts
TestPaths ==
    { << "a", ".", "t", "e", "s", "t", ".", "t", "s" >>,
      << "a", ".", "s", "p", "e", "c", ".", "t", "s", "x" >>,
      << "a", ".", "i", "n", "t", "e", "g", "r", "a", "t", "i", "o", "n", ".", "t", "e", "s", "t", ".", "t", "s" >>,
      << "e", "2", "e", "/", "b", ".", "t", "s" >>,
      << "e", "2", "e", "/", "a", ".", "e", "2", "e", ".", "t", "e", "s", "t", ".", "t", "s" >>,
      << "e", "2", "e", "/", "c", ".", "m", "d" >>,
      << ".", "t", "e", "s", "t", ".", "t", "s" >>,
      << "a", ".", "t", "s" >> }

\* the project trees: the files that exist when the handler is called
TestDisks == { d \in SUBSET TestPaths : Cardinality(d) <= MaxTestFiles }

RECURSIVE WildMatch(_, _)
\* one pattern segment against one path segment: "*" stands for any run of
\* characters, every other character for itself
WildMatch(pat, name) ==
    IF pat = <<>> THEN name = <<>>
    ELSE IF Head(pat) = "*"
    THEN WildMatch(Tail(pat), name) \/ (name # <<>> /\ WildMatch(pat, Tail(name)))
    ELSE name # <<>> /\ Head(name) = Head(pat) /\ WildMatch(Tail(pat), Tail(name))

\* a name that begins with a dot is matched only by a segment that spells the dot
SegmentMatch(pat, name) ==
    /\ (name # <<>> /\ Head(name) = ".") => (pat # <<>> /\ Head(pat) = ".")
    /\ WildMatch(pat, name)

RECURSIVE PathMatch(_, _)
\* pattern segments against path segments: "**" stands for any run of
\* directories none of which begins with a dot
PathMatch(pats, path) ==
    IF pats = <<>> THEN path = <<>>
    ELSE IF Head(pats) = << "*", "*" >>
    THEN \/ PathMatch(Tail(pats), path)
         \/ /\ path # <<>>
            /\ Head(path) # <<>>
            /\ Head(Head(path)) # "."
            /\ PathMatch(pats, Tail(path))
    ELSE /\ path # <<>>
         /\ SegmentMatch(Head(pats), Head(path))
         /\ PathMatch(Tail(pats), Tail(path))

\* glob's matching of one pattern against one path below cwd
GlobMatches(pattern, path) == PathMatch(Split(pattern, "/"), Split(path, "/"))

\* glob(pattern, {cwd}) over a tree: the matching paths in the order the
\* walk yields them, or a rejection
TestGlobAnswers(pattern, disk) ==
    LET matches == { f \in disk : GlobMatches(pattern, f) }
    IN { [ok |-> TRUE, files |-> fs, error |-> ""] :
           fs \in { q \in SeqsUpTo(matches, Cardinality(matches)) :
                      Len(q) = Cardinality(matches) /\ Distinct(q) } }
         \cup { FsFailure("EACCES") }

RECURSIVE UniqueFrom(_, _)
\* Array.from(new Set(xs)): the first occurrence of every element, in order
UniqueFrom(xs, seen) ==
    IF xs = <<>> THEN <<>>
    ELSE IF Head(xs) \in seen THEN UniqueFrom(Tail(xs), seen)
    ELSE << Head(xs) >> \o UniqueFrom(Tail(xs), seen \cup {Head(xs)})

\* an array taken over as it is
Unique_KeepAll(xs) == xs

Unique(xs) == UniqueFrom(xs, {})

TestsText(type, uniqueFiles) ==
    [kind |-> "tests", type |-> type, count |-> Len(uniqueFiles), items |-> uniqueFiles]

FindTestFiles ==
    /\ pc = "idle"
    /\ \E type \in TestTypes, disk \in TestDisks :
         /\ args' = [type |-> type]
         /\ loc' = [patterns |-> PatternsFor(type), k |-> 1, allFiles |-> <<>>]
         /\ obs' = [NoObs EXCEPT !.disk = disk]
    /\ tool' = "find_test_files"
    /\ pc' = "tf_glob"
    /\ result' = Pending
    /\ UNCHANGED <<stack, startKind, revealed, proc, conc>>

\* one turn of the loop over patterns; after the last the duplicates go
TfGlob ==
    /\ pc = "tf_glob"
    /\ \E r \in TestGlobAnswers(loc.patterns[loc.k], obs.disk) :
         LET allFiles == loc.allFiles \o r.files
         IN /\ obs' = FsAsked(<<"glob", loc.patterns[loc.k]>>, r)
            /\ IF ~r.ok
               THEN HandlerCatch(TfPrefix, r.error)
               ELSE IF loc.k < Len(loc.patterns)
               THEN /\ loc' = [loc EXCEPT !.k = @ + 1, !.allFiles = allFiles]
                    /\ UNCHANGED <<pc, result>>
               ELSE /\ pc' = "done"
                    /\ loc' = [loc EXCEPT !.k = @ + 1, !.allFiles = allFiles]
                    /\ result' = Returned(TestsText(args.type, Unique(allFiles)))
    /\ UNCHANGED <<tool, args, stack, startKind, revealed, proc, conc>>

----------------------------------------------------------------------------
(* get_package_info *)

PiPrefix == "Error getting package info: "

\* what reading and parsing one package.json gives: a manifest, the JSON
\* value null (reading pkg.name then throws), malformed JSON, or no read
ManifestAnswers ==
    { [ok |-> TRUE, name |-> n, error |-> ""] : n \in {"p", "q"} }
      \cup { [ok |-> FALSE, name |-> "", error |-> e] :
               e \in {"ENOENT", "Unexpected token", "Cannot read properties of null"} }

\* a filter that lets every manifest through
Selected_Any(packageName, name) == TRUE

\* !packageName || pkg.name === packageName
Selected(packageName, name) == packageName = "" \/ name = packageName

GetPackageInfo ==
    /\ pc = "idle"
    /\ \E package \in {"", "p", "zz"} : args' = [package |-> package]
    /\ tool' = "get_package_info"
    /\ pc' = "pi_glob"
    /\ loc' = [packageFiles |-> <<>>, k |-> 1, packages |-> <<>>]
    /\ obs' = NoObs
    /\ result' = Pending
    /\ UNCHANGED <<stack, startKind, revealed, proc, conc>>

\* the glob of the manifests
PiGlob ==
    /\ pc = "pi_glob"
    /\ \E r \in GlobAnswers :
         /\ obs' = FsAsked(<<"glob">>, r)
         /\ IF ~r.ok
            THEN HandlerCatch(PiPrefix, r.error)
            ELSE IF r.files = <<>>
            THEN HandlerReturn(FoundText("packages", <<>>))
            ELSE /\ loc' = [loc EXCEPT !.packageFiles = r.files]
                 /\ pc' = "pi_read"
                 /\ result' = result
    /\ UNCHANGED <<tool, args, stack, startKind, revealed, proc, conc>>

\* the end of one turn of the loop: the next manifest, or the answer
PiNextManifest(packages) ==
    IF loc.k < Len(loc.packageFiles)
    THEN /\ loc' = [loc EXCEPT !.k = @ + 1, !.packages = packages]
         /\ UNCHANGED <<pc, result>>
    ELSE /\ pc' = "done"
         /\ loc' = [loc EXCEPT !.k = @ + 1, !.packages = packages]
         /\ result' = Returned(FoundText("packages", packages))

\* a loop that steps over a manifest it cannot read or parse
PiReadFailed_SkipsManifest(message) == PiNextManifest(loc.packages)

\* readFile and JSON.parse stand in the handler's one try: the catch answers
PiReadFailed(message) == HandlerCatch(PiPrefix, message)

\* one turn of the loop: readFile, JSON.parse and the name filter
PiRead ==
    /\ pc = "pi_read"
    /\ \E r \in ManifestAnswers :
         LET file == loc.packageFiles[loc.k]
             packages == IF r.ok /\ Selected(args.package, r.name)
                         THEN Append(loc.packages, [file |-> file, name |-> r.name])
                         ELSE loc.packages
         IN /\ obs' = FsAsked(<<"manifest", file>>, r)
            /\ IF ~r.ok THEN PiReadFailed(r.error) ELSE PiNextManifest(packages)
    /\ UNCHANGED <<tool, args, stack, startKind, revealed, proc, conc>>

----------------------------------------------------------------------------
(* generate_pr_description and get_pr_ai_prompt *)

GpdPrefix == "Error generating PR description: "

GpaPrefix == "Error getting AI prompt: "

PrPrefix(t) == IF t = "generate_pr_description" THEN GpdPrefix ELSE GpaPrefix

\* the built-in template of each of the two handlers
DefaultTemplate(t) ==
    IF t = "generate_pr_description"
    THEN "default template of generate_pr_description"
    ELSE "default template of get_pr_ai_prompt"

\* readFile of .github/pull_request_template.md
TemplateAnswers ==
    { [ok |-> TRUE, content |-> "content of pull_request_template.md", error |-> ""],
      [ok |-> FALSE, content |-> "", error |-> "ENOENT"] }

\* the text both handlers assemble from what they gathered
PromptText(t, l, prTemplate, diffContent) ==
    [kind |-> IF t = "generate_pr_description" THEN "description" ELSE "prompt",
     branch |-> l.currentBranchName,
     targetBranch |-> args.branch,
     fileCount |-> Len(l.changedFiles),
     changedFiles |-> l.changedFiles,
     commitMessages |-> l.commitMessages,
     diffShown |-> diffContent # <<>>,
     diffContent |-> diffContent,
     prTemplate |-> prTemplate]

\* z.object(...): the parameters a handler receives are those its schema
\* declares; a key the schema does not declare is stripped
Parsed(schema, params) == [k \in schema \cap DOMAIN params |-> params[k]]

GpdSchema == {"branch", "includeDiff", "template"}

GpaSchema == {"branch", "includeDiff"}

\* ticket identifiers a client sends; "" stands for a request without one
Tickets == {"", "DEV-5635"}

PrLoc ==
    [currentBranchName |-> <<>>, changedFiles |-> <<>>, commitMessages |-> <<>>,
     prTemplate |-> ""]

GeneratePrDescription ==
    /\ pc = "idle"
    /\ \E includeDiff \in BOOLEAN, template \in {"", "custom template"},
          jiraTicket \in Tickets :
         LET params == [branch |-> Master, includeDiff |-> includeDiff,
                        template |-> template, jiraTicket |-> jiraTicket]
         IN /\ args' = Parsed(GpdSchema, params)
            /\ obs' = [NoObs EXCEPT !.given = params]
    /\ tool' = "generate_pr_description"
    /\ pc' = "pr_branch"
    /\ loc' = PrLoc
    /\ result' = Pending
    /\ UNCHANGED <<stack, startKind, revealed, proc, conc>>

GetPrAiPrompt ==
    /\ pc = "idle"
    /\ \E includeDiff \in BOOLEAN, jiraTicket \in Tickets :
         LET params == [branch |-> Master, includeDiff |-> includeDiff,
                        jiraTicket |-> jiraTicket]
         IN /\ args' = Parsed(GpaSchema, params)
            /\ obs' = [NoObs EXCEPT !.given = params]
    /\ tool' = "get_pr_ai_prompt"
    /\ pc' = "pr_branch"
    /\ loc' = PrLoc
    /\ result' = Pending
    /\ UNCHANGED <<stack, startKind, revealed, proc, conc>>

\* git branch --show-current
PrBranch(t) ==
    /\ tool = t
    /\ pc = "pr_branch"
    /\ \E r \in BranchAnswers :
         /\ obs' = Asked("branch", r)
         /\ IF r.ok
            THEN /\ loc' = [loc EXCEPT !.currentBranchName = Trim(r.stdout)]
                 /\ pc' = "pr_files"
                 /\ result' = result
            ELSE HandlerCatch(PrPrefix(t), r.error)
    /\ UNCHANGED <<tool, args, stack, startKind, revealed, proc, conc>>

\* git diff --name-only
PrFiles(t) ==
    /\ tool = t
    /\ pc = "pr_files"
    /\ \E r \in FilesAnswers :
         /\ obs' = Asked("files", r)
         /\ IF r.ok
            THEN /\ loc' = [loc EXCEPT !.changedFiles = OutputLines(r.stdout)]
                 /\ pc' = "pr_log"
                 /\ result' = result
            ELSE HandlerCatch(PrPrefix(t), r.error)
    /\ UNCHANGED <<tool, args, stack, startKind, revealed, proc, conc>>

\* what follows once the template is known: the diff query or the return
PrAfterTemplate(t, l, prTemplate) ==
    IF args.includeDiff
    THEN /\ pc' = "pr_diff"
         /\ loc' = [l EXCEPT !.prTemplate = prTemplate]
         /\ result' = result
    ELSE /\ pc' = "done"
         /\ loc' = [l EXCEPT !.prTemplate = prTemplate]
         /\ result' = Returned(PromptText(t, l, prTemplate, <<>>))

\* if (template): only generate_pr_description declares the parameter
HasCustomTemplate(t) == t = "generate_pr_description" /\ args.template # ""

\* git log --oneline, not inside a try of its own; a custom template is
\* taken over without reading the file
PrLog(t) ==
    /\ tool = t
    /\ pc = "pr_log"
    /\ \E r \in LogAnswers :
         /\ obs' = Asked("log", r)
         /\ IF ~r.ok
            THEN HandlerCatch(PrPrefix(t), r.error)
            ELSE LET l == [loc EXCEPT !.commitMessages = OutputLines(r.stdout)]
                 IN IF HasCustomTemplate(t)
                    THEN PrAfterTemplate(t, l, args.template)
                    ELSE /\ pc' = "pr_template"
                         /\ loc' = l
                         /\ result' = result
    /\ UNCHANGED <<tool, args, stack, startKind, revealed, proc, conc>>

\* a catch that leaves prTemplate as it was declared
ChosenTemplate_NoDefault(t, r) == IF r.ok THEN r.content ELSE ""

\* the try around readFile: the file's content, or the default in the catch
ChosenTemplate(t, r) == IF r.ok THEN r.content ELSE DefaultTemplate(t)

\* readFile of the template inside its own try: the default on a failure
PrTemplate(t) ==
    /\ tool = t
    /\ pc = "pr_template"
    /\ \E r \in TemplateAnswers :
         /\ obs' = [obs EXCEPT !.queries = Append(@, "template"),
                               !.answers = Append(@, r),
                               !.failed = IF r.ok THEN @ ELSE @ \cup {"template"}]
         /\ PrAfterTemplate(t, loc, ChosenTemplate(t, r))
    /\ UNCHANGED <<tool, args, stack, startKind, revealed, proc, conc>>

\* git diff inside its own try: an empty diffContent on a failure
PrDiff(t) ==
    /\ tool = t
    /\ pc = "pr_diff"
    /\ \E r \in DiffAnswers :
         /\ obs' = Asked("diff", r)
         /\ pc' = "done"
         /\ loc' = loc
         /\ result' = Returned(PromptText(t, loc, loc.prTemplate,
                                          IF r.ok THEN r.stdout ELSE <<>>))
    /\ UNCHANGED <<tool, args, stack, startKind, revealed, proc, conc>>

GpdBranch == PrBranch("generate_pr_description")
GpdFiles == PrFiles("generate_pr_description")
GpdLog == PrLog("generate_pr_description")
GpdTemplate == PrTemplate("generate_pr_description")
GpdDiff == PrDiff("generate_pr_description")

GpaBranch == PrBranch("get_pr_ai_prompt")
GpaFiles == PrFiles("get_pr_ai_prompt")
GpaLog == PrLog("get_pr_ai_prompt")
GpaTemplate == PrTemplate("get_pr_ai_prompt")
GpaDiff == PrDiff("get_pr_ai_prompt")

----------------------------------------------------------------------------
(* The process: from the load of the module to the started server.
   index.ts holds two startup sequences, the one in force (lines 1-722)
   and an earlier one (lines 724-1063); both are modelled. *)

Builds == {"current", "earlier"}

\* a variable the environment does not hold reads as a falsy value
NoValue == <<>>

\* the value of PROJECT_ROOT when it is set: a path
EnvRoot == << <<"w">> >>

\* "/Users/phong.lam/Documents/projects/developer-web"
HardCodedRoot == << <<"h">> >>

\* the directory the process is launched in
LaunchDir == << <<"l">> >>

\* the const projectPath of each startup sequence
ProjectPath(build, env) ==
    IF build = "current"
    THEN (IF env # NoValue THEN env ELSE HardCodedRoot)
    ELSE env

\* the addTool calls in source order
ToolOrder(build) ==
    IF build = "current"
    THEN << "search_files", "find_components", "get_graphql_schemas",
            "get_project_structure", "find_test_files", "get_package_info",
            "get_git_diff", "generate_pr_description", "get_pr_ai_prompt" >>
    ELSE << "search_files", "find_components", "get_graphql_schemas",
            "get_project_structure", "find_test_files", "get_package_info" >>

\* the process as the operating system starts it
LaunchedProc(build, env) ==
    [build |-> build, env |-> env, step |-> "load", projectPath |-> NoValue,
     cwd |-> LaunchDir, chdirs |-> 0, registered |-> 0, started |-> FALSE,
     exitCode |-> 0, stderr |-> ""]

\* the process once server.start() was called, PROJECT_ROOT being set
ServingProc ==
    [LaunchedProc("current", EnvRoot) EXCEPT
        !.step = "serving", !.projectPath = EnvRoot, !.cwd = EnvRoot,
        !.chdirs = 1, !.registered = Len(ToolOrder("current")), !.started = TRUE]

\* config() and the initialiser of projectPath
LoadEnv ==
    /\ proc.step = "load"
    /\ proc' = [proc EXCEPT !.step = "check",
                            !.projectPath = ProjectPath(proc.build, proc.env)]
    /\ UNCHANGED <<tool, pc, args, stack, loc, startKind, revealed, obs, result, conc>>

\* if (!projectPath) { console.error(...); process.exit(1); }
CheckRoot ==
    /\ proc.step = "check"
    /\ proc' = IF proc.projectPath = NoValue
               THEN [proc EXCEPT !.step = "exited", !.exitCode = 1,
                        !.stderr = "PROJECT_ROOT environment variable is not set"]
               ELSE [proc EXCEPT !.step = "chdir"]
    /\ UNCHANGED <<tool, pc, args, stack, loc, startKind, revealed, obs, result, conc>>

\* chdir(projectPath); where the directory is missing it throws and the
\* uncaught exception ends the process
Chdir ==
    /\ proc.step = "chdir"
    /\ \E exists \in BOOLEAN :
         proc' = IF exists
                 THEN [proc EXCEPT !.step = "register", !.cwd = proc.projectPath,
                                   !.chdirs = @ + 1]
                 ELSE [proc EXCEPT !.step = "exited", !.exitCode = 1,
                                   !.stderr = "ENOENT"]
    /\ UNCHANGED <<tool, pc, args, stack, loc, startKind, revealed, obs, result, conc>>

\* new FastMCP(...) and the server.addTool calls, one after the other
AddTool ==
    /\ proc.step = "register"
    /\ proc' = IF proc.registered < Len(ToolOrder(proc.build))
               THEN [proc EXCEPT !.registered = @ + 1]
               ELSE [proc EXCEPT !.step = "start"]
    /\ UNCHANGED <<tool, pc, args, stack, loc, startKind, revealed, obs, result, conc>>

\* server.start()
StartServer ==
    /\ proc.step = "start"
    /\ proc' = [proc EXCEPT !.step = "serving", !.started = TRUE]
    /\ UNCHANGED <<tool, pc, args, stack, loc, startKind, revealed, obs, result, conc>>

----------------------------------------------------------------------------
(* Invocations in flight at the same time.  The server hands every request
   to execute at once, so a second call of get_project_structure can start
   and take steps while the first waits at an await.  Here the tree below
   the project directory is fixed when the process starts, and both
   invocations read it. *)

\* the invocations that can be in flight
Slots == {1, 2}

\* the names a directory of the tree can hold, in the order readdir lists them
ConcNames == << <<"a">>, <<"b">> >>

\* the paths of the tree, relative to the project directory
ConcPaths ==
    { q \in SeqsUpTo({ ConcNames[k] : k \in 1..Len(ConcNames) }, 2) : q # <<>> }

\* what a path is: nothing, a plain file, a directory, or an entry stat rejects
NodeKinds == {"none", "file", "dir", "bad"}

\* the trees: an entry exists only inside a directory
Worlds ==
    { w \in [ConcPaths -> NodeKinds] :
        /\ \A q \in ConcPaths :
              (Len(q) = 2 /\ w[q] # "none") => w[<< q[1] >>] = "dir"
        /\ Cardinality({ q \in ConcPaths : w[q] # "none" }) <= MaxNodes }

\* what stands at an absolute path, the tree hanging at root
NodeAt(w, root, path) ==
    IF Len(path) < Len(root) \/ SubSeq(path, 1, Len(root)) # root THEN "none"
    ELSE LET rel == SubSeq(path, Len(root) + 1, Len(path))
         IN IF rel = <<>> THEN "dir"
            ELSE IF rel \in ConcPaths THEN w[rel]
            ELSE "none"

\* await readdir(path)
ReaddirOf(w, root, path) ==
    LET kind == NodeAt(w, root, path)
        Exists(n) == NodeAt(w, root, Append(path, n)) # "none"
    IN IF kind = "dir"
       THEN [ok |-> TRUE, items |-> SelectSeq(ConcNames, Exists), error |-> ""]
       ELSE [ok |-> FALSE, items |-> <<>>,
             error |-> IF kind = "file" THEN "ENOTDIR" ELSE "ENOENT"]

\* await stat(path)
StatOf(w, root, path) ==
    LET kind == NodeAt(w, root, path)
    IN IF kind \in {"file", "dir"}
       THEN [ok |-> TRUE, isDirectory |-> kind = "dir", error |-> ""]
       ELSE [ok |-> FALSE, isDirectory |-> FALSE, error |-> "ENOENT"]

\* the arguments of the concurrent calls: directory "." or "a"
ConcDirs == { <<>>, << <<"a">> >> }

ConcDepths == 1..2

IdleSlot ==
    [pc |-> "idle", args |-> [directory |-> <<>>, maxDepth |-> 0],
     projectRoot |-> NoValue, stack |-> <<>>, result |-> Pending]

SlotTop(s) == s.stack[Len(s.stack)]

SlotSetTop(s, f) == [s EXCEPT !.stack[Len(s.stack)] = f]

\* analyzeDir returns: to execute, or to the activation that called it
SlotReturn(s, text) ==
    IF Len(s.stack) = 1
    THEN [s EXCEPT !.stack = <<>>, !.pc = "done",
                   !.result = Returned(StructureText(s.args.directory, text))]
    ELSE LET caller == s.stack[Len(s.stack) - 1]
         IN [s EXCEPT !.stack = SubSeq(s.stack, 1, Len(s.stack) - 2)
                          \o << [caller EXCEPT !.result = @ \o text, !.i = @ + 1] >>]

\* a rejected await ends in execute's catch block
SlotThrow(s, message) ==
    [s EXCEPT !.stack = <<>>, !.pc = "done", !.result = Caught(GpsPrefix, message)]

\* analyzeDir up to the end of its readdir
SlotEnter(s, w, root) ==
    LET top == SlotTop(s)
        r == ReaddirOf(w, root, s.projectRoot \o top.dir)
    IN IF DepthReached(top.currentDepth, s.args.maxDepth) THEN SlotReturn(s, <<>>)
       ELSE IF r.ok THEN SlotSetTop(s, [top EXCEPT !.items = r.items, !.at = "loop"])
       ELSE SlotThrow(s, r.error)

\* one turn of the for loop, or the return after the last item
SlotLoop(s, w, root) ==
    LET top == SlotTop(s)
    IN IF top.i > Len(top.items) THEN SlotReturn(s, top.result)
       ELSE LET item == top.items[top.i]
                itemPath == Join(top.dir, item)
                stats == StatOf(w, root, s.projectRoot \o itemPath)
            IN IF IsExcluded(item) THEN SlotSetTop(s, [top EXCEPT !.i = @ + 1])
               ELSE IF ~stats.ok THEN SlotThrow(s, stats.error)
               ELSE IF stats.isDirectory
               THEN [s EXCEPT !.stack =
                        SubSeq(s.stack, 1, Len(s.stack) - 1)
                          \o << [top EXCEPT !.result =
                                   Append(@, DirLine(top.currentDepth, item, itemPath))],
                                Frame(itemPath, NextDepth(top.currentDepth)) >>]
               ELSE SlotSetTop(s, [top EXCEPT
                        !.result = Append(@, FileLine(top.currentDepth, item, itemPath)),
                        !.i = @ + 1])

\* a handler that moves the process into the directory it was given
HandlerCwd_ChangesDirectory(cwd, directory) == cwd \o directory

\* process.cwd() after a handler ran: execute reads it and never sets it
HandlerCwd(cwd, directory) == cwd

\* a request arrives and execute runs up to its first await
ConcCall ==
    /\ proc.step = "serving"
    /\ \E i \in Slots, directory \in ConcDirs, maxDepth \in ConcDepths :
         /\ conc.slots[i].pc = "idle"
         /\ conc' = [conc EXCEPT
                !.slots[i] = [IdleSlot EXCEPT
                    !.pc = "running",
                    !.args = [directory |-> directory, maxDepth |-> maxDepth],
                    !.projectRoot = proc.cwd,
                    !.stack = << Frame(directory, 0) >>],
                !.overlapped = @ \/ \E j \in Slots : conc.slots[j].pc = "running"]
         /\ proc' = [proc EXCEPT !.cwd = HandlerCwd(@, directory)]
    /\ UNCHANGED <<tool, pc, args, stack, loc, startKind, revealed, obs, result>>

\* an invocation resumes after the readdir it awaited
ConcEnter ==
    /\ \E i \in Slots :
         /\ conc.slots[i].pc = "running"
         /\ SlotTop(conc.slots[i]).at = "enter"
         /\ conc' = [conc EXCEPT
                !.slots[i] = SlotEnter(@, conc.world, proc.projectPath)]
    /\ UNCHANGED <<tool, pc, args, stack, loc, startKind, revealed, obs, result, proc>>

\* an invocation resumes after the stat it awaited
ConcLoop ==
    /\ \E i \in Slots :
         /\ conc.slots[i].pc = "running"
         /\ SlotTop(conc.slots[i]).at = "loop"
         /\ conc' = [conc EXCEPT
                !.slots[i] = SlotLoop(@, conc.world, proc.projectPath)]
    /\ UNCHANGED <<tool, pc, args, stack, loc, startKind, revealed, obs, result, proc>>

\* no invocation in flight, over a tree
NoCalls(w) ==
    [world |-> w, slots |-> [i \in Slots |-> IdleSlot], overlapped |-> FALSE]

----------------------------------------------------------------------------

Init ==
    /\ tool = "none"
    /\ pc = "idle"
    /\ args = [directory |-> <<>>, maxDepth |-> 0]
    /\ stack = <<>>
    /\ loc = NoLoc
    /\ startKind = "dir"
    /\ revealed = 0
    /\ obs = NoObs
    /\ result = Pending
    /\ proc = ServingProc
    /\ conc = NoCalls([q \in ConcPaths |-> "none"])

Next ==
    \/ GetProjectStructure
    \/ AnalyzeDirEnter
    \/ AnalyzeDirLoop
    \/ GetGitDiff
    \/ GgdBranch
    \/ GgdFiles
    \/ GgdLog
    \/ GgdDiff
    \/ SearchFiles
    \/ SfGlob
    \/ FindComponents
    \/ FcGlob
    \/ GetGraphqlSchemas
    \/ GqGlob
    \/ GqRead
    \/ FindTestFiles
    \/ TfGlob
    \/ GetPackageInfo
    \/ PiGlob
    \/ PiRead
    \/ GeneratePrDescription
    \/ GpdBranch
    \/ GpdFiles
    \/ GpdLog
    \/ GpdTemplate
    \/ GpdDiff
    \/ GetPrAiPrompt
    \/ GpaBranch
    \/ GpaFiles
    \/ GpaLog
    \/ GpaTemplate
    \/ GpaDiff

Spec == Init /\ [][Next]_vars

\* the process is launched: with or without PROJECT_ROOT, over any tree
InitServer ==
    /\ tool = "none"
    /\ pc = "idle"
    /\ args = [directory |-> <<>>, maxDepth |-> 0]
    /\ stack = <<>>
    /\ loc = NoLoc
    /\ startKind = "dir"
    /\ revealed = 0
    /\ obs = NoObs
    /\ result = Pending
    /\ \E build \in Builds, env \in {NoValue, EnvRoot} :
         proc = LaunchedProc(build, env)
    /\ \E w \in Worlds : conc = NoCalls(w)

NextServer ==
    \/ LoadEnv
    \/ CheckRoot
    \/ Chdir
    \/ AddTool
    \/ StartServer
    \/ ConcCall
    \/ ConcEnter
    \/ ConcLoop

\* startup followed by invocations that overlap
SpecServer == InitServer /\ [][NextServer]_vars

----------------------------------------------------------------------------
(* Vocabulary of the properties *)

GpsDone == tool = "get_project_structure" /\ pc = "done"

\* the payload of the one content item of the returned envelope
Text == result.envelope.content[1].text

\* the call returned a tree rendering
GpsRendered == GpsDone /\ result.outcome = "returned" /\ Text.kind = "structure"

\* the lines of the rendering
Lines == Text.lines

\* depth of a path below the starting directory: 0 for its immediate children
DepthBelowStart(path) == Len(path) - Len(args.directory) - 1

IsPrefix(p, q) == Len(p) <= Len(q) /\ SubSeq(q, 1, Len(p)) = p

StrictlyBelow(p, q) == IsPrefix(p, q) /\ Len(p) < Len(q)

Parent(path) == SubSeq(path, 1, Len(path) - 1)

\* a name that begins with a dot or is node_modules, stated on its own
HiddenName(n) == (n # <<>> /\ Head(n) = ".") \/ n = NodeModules

RECURSIVE VisibleNames(_, _)
\* the non-hidden names of a listing, in listing order
VisibleNames(items, k) ==
    IF k > Len(items) THEN <<>>
    ELSE (IF HiddenName(items[k]) THEN <<>> ELSE << items[k] >>)
           \o VisibleNames(items, k + 1)

RECURSIVE ChildNames(_, _, _)
\* the names of the lines whose entry lies directly in dir, in output order
ChildNames(lines, dir, k) ==
    IF k > Len(lines) THEN <<>>
    ELSE (IF Parent(lines[k].path) = dir THEN << lines[k].name >> ELSE <<>>)
           \o ChildNames(lines, dir, k + 1)

----------------------------------------------------------------------------
(* C1: a rendering made with maxDepth = d holds no line for an entry at
   depth > d below the starting directory; entries are listed only while
   the current depth is below maxDepth. *)
C1_NoLineBeyondMaxDepth ==
    GpsRendered =>
        \A k \in 1..Len(Lines) :
            /\ DepthBelowStart(Lines[k].path) <= args.maxDepth
            /\ DepthBelowStart(Lines[k].path) < args.maxDepth

\* a rendering that lists a directory at the last permitted depth
C1_Witness ==
    /\ GpsRendered
    /\ args.maxDepth \in 1..2
    /\ \E k \in 1..Len(Lines) :
          /\ Lines[k].marker = "dir"
          /\ DepthBelowStart(Lines[k].path) = args.maxDepth - 1

(* C2: with maxDepth = d >= 1, every directory at depth d-1 that the walk
   classified appears as a line of the rendering and no line of the
   rendering is one of its descendants. *)
C2_LastLevelDirsListedWithoutDescendants ==
    (GpsRendered /\ args.maxDepth >= 1) =>
        \A s \in obs.statted :
            (s.isDirectory /\ DepthBelowStart(s.path) = args.maxDepth - 1) =>
                /\ \E k \in 1..Len(Lines) :
                      Lines[k].path = s.path /\ Lines[k].marker = "dir"
                /\ \A k \in 1..Len(Lines) : ~StrictlyBelow(s.path, Lines[k].path)

\* a rendering with two levels where a directory of the second level is cut
C2_Witness ==
    /\ GpsRendered
    /\ args.maxDepth = 2
    /\ \E s \in obs.statted : s.isDirectory /\ DepthBelowStart(s.path) = 1
    /\ Len(Lines) >= 2

(* C3: no line of a rendering is for an entry whose name starts with "."
   or equals node_modules, nor for an entry below such an entry (counted
   from the starting directory). *)
C3_ExcludedNeverRendered ==
    GpsRendered =>
        \A k \in 1..Len(Lines) :
            /\ ~HiddenName(Lines[k].name)
            /\ \A j \in (Len(args.directory) + 1)..Len(Lines[k].path) :
                  ~HiddenName(Lines[k].path[j])

\* a rendering of a tree in which a listing held both kinds of excluded
\* name next to an entry that is rendered
C3_Witness ==
    /\ GpsRendered
    /\ Len(Lines) >= 1
    /\ \E l \in obs.listed :
          /\ \E i \in 1..Len(l.items) : l.items[i] = NodeModules
          /\ \E i \in 1..Len(l.items) : l.items[i] = <<".", "a">>

(* C4: every line stands for one entry, no entry has two lines, a line is
   indented by two spaces per depth level of its entry, the lines are in
   pre-order (the line after an entry is its first rendered child or
   belongs to a directory that contains the entry, and a directory's
   children form one block behind it), and the children of every listed
   directory are its non-excluded names in listing order. *)
C4_PreOrderIndentedLines ==
    GpsRendered =>
        /\ \A k \in 1..Len(Lines) :
              /\ Lines[k].path # <<>>
              /\ Lines[k].name = Lines[k].path[Len(Lines[k].path)]
              /\ Lines[k].indent = 2 * DepthBelowStart(Lines[k].path)
              /\ Lines[k].slash = (Lines[k].marker = "dir")
              /\ \E s \in obs.statted :
                    s.path = Lines[k].path
                      /\ s.isDirectory = (Lines[k].marker = "dir")
        /\ \A j, k \in 1..Len(Lines) : j # k => Lines[j].path # Lines[k].path
        /\ Len(Lines) >= 1 => Parent(Lines[1].path) = args.directory
        /\ \A k \in 1..(Len(Lines) - 1) :
              /\ IsPrefix(Parent(Lines[k + 1].path), Lines[k].path)
              /\ Parent(Lines[k + 1].path) = Lines[k].path => Lines[k].marker = "dir"
        /\ \A j, k \in 1..Len(Lines) :
              (j < k /\ StrictlyBelow(Lines[j].path, Lines[k].path)) =>
                  \A m \in j..k : IsPrefix(Lines[j].path, Lines[m].path)
        /\ \A l \in obs.listed :
              ChildNames(Lines, l.dir, 1) = VisibleNames(l.items, 1)

\* a rendering with a directory listed before its sibling "a", two
\* children under it, and the sibling behind them
C4_Witness ==
    /\ GpsRendered
    /\ Len(Lines) = 4
    /\ Lines[1].marker = "dir"
    /\ Lines[1].name = <<"b">>
    /\ Lines[2].indent = 2
    /\ Lines[3].indent = 2
    /\ Lines[4].indent = 0
    /\ Lines[4].name = <<"a">>

(* C5: when a readdir or a stat of the walk fails, the call returns the
   error text of get_project_structure for that failure and nothing of
   the tree built so far. *)
C5_FailureDiscardsPartialTree ==
    (GpsDone /\ obs.failure # "") =>
        /\ result.outcome = "returned"
        /\ Len(result.envelope.content) = 1
        /\ Text.kind = "error"
        /\ Text.prefix = "Error getting project structure: "
        /\ Text.message = obs.failure
        /\ "lines" \notin DOMAIN Text

\* a walk that had rendered two entries when an access failed
C5_Witness ==
    /\ GpsDone
    /\ obs.failure # ""
    /\ obs.emitted >= 2

(* C6: a call whose starting directory does not exist or is not a
   directory returns an error text, never a tree rendering. *)
C6_BadStartAlwaysFails ==
    (GpsDone /\ startKind \in {"missing", "file"}) =>
        /\ result.outcome = "returned"
        /\ Text.kind = "error"

----------------------------------------------------------------------------
(* Vocabulary of the get_git_diff properties *)

GgdDone == tool = "get_git_diff" /\ pc = "done"

\* the call returned the assembled report
GgdReported == GgdDone /\ result.outcome = "returned" /\ Text.kind = "gitdiff"

Output == Text.output

HasSegment(seg) == \E k \in 1..Len(Output) : Output[k].seg = seg

RECURSIVE TextsOf(_, _, _)
\* the payloads of the segments of one kind, in output order
TextsOf(out, seg, k) ==
    IF k > Len(out) THEN <<>>
    ELSE (IF out[k].seg = seg THEN << out[k].text >> ELSE <<>>)
           \o TextsOf(out, seg, k + 1)

WasAsked(query) == \E k \in 1..Len(obs.queries) : obs.queries[k] = query

\* the answer the subprocess gave to a query that was issued
AnswerTo(query) ==
    obs.answers[CHOOSE k \in 1..Len(obs.queries) : obs.queries[k] = query]

Succeeded(query) == WasAsked(query) /\ AnswerTo(query).ok

(* C8: when the branch and changed-file queries succeed and the commit
   log or the diff query fails, the call still returns the report with
   its header, file count and changed-file list; the section of the
   failed query is absent and the section of the other query is there
   as it would be without the failure. *)
C8_AuxiliaryFailureDegrades ==
    (GgdDone /\ Succeeded("branch") /\ Succeeded("files")
       /\ ({"log", "diff"} \cap obs.failed # {})) =>
        /\ result.outcome = "returned"
        /\ Text.kind = "gitdiff"
        /\ Len(Output) >= 2
        /\ Output[1].seg = "header"
        /\ Output[2].seg = "count"
        /\ Output[2].n = Len(TextsOf(Output, "file", 1))
        /\ Output[2].n > 0 => Output[3].seg = "## Changed Files"
        /\ "log" \in obs.failed =>
              ~HasSegment("## Commits") /\ ~HasSegment("commit")
        /\ "diff" \in obs.failed =>
              ~HasSegment("## Diff") /\ ~HasSegment("diff")
        /\ (Succeeded("log") /\ AnswerTo("log").entries # <<>>) =>
              /\ HasSegment("## Commits")
              /\ TextsOf(Output, "commit", 1) = AnswerTo("log").entries
        /\ (Succeeded("diff") /\ AnswerTo("diff").stdout # <<>>) =>
              /\ HasSegment("## Diff")
              /\ TextsOf(Output, "diff", 1) = << AnswerTo("diff").stdout >>

\* the commit log failed, the diff came, and files had changed
C8_Witness ==
    /\ GgdReported
    /\ "log" \in obs.failed
    /\ Succeeded("diff")
    /\ HasSegment("## Diff")
    /\ HasSegment("file")

\* the diff failed after the commits were listed
C8_WitnessDiff ==
    /\ GgdReported
    /\ "diff" \in obs.failed
    /\ HasSegment("## Commits")

(* C9: when the branch query or the changed-file query fails, the call
   returns only the error text of get_git_diff: no header, count, commit
   or diff section. *)
C9_CoreFailureIsFatal ==
    (GgdDone /\ ({"branch", "files"} \cap obs.failed # {})) =>
        /\ result.outcome = "returned"
        /\ Len(result.envelope.content) = 1
        /\ Text.kind = "error"
        /\ Text.prefix = "Error getting git diff: "
        /\ Text.message = obs.answers[Len(obs.answers)].error
        /\ "output" \notin DOMAIN Text

\* the changed-file query failed after the branch name was read
C9_Witness ==
    /\ GgdDone
    /\ Succeeded("branch")
    /\ "files" \in obs.failed

(* C10: when the changed-file query reports no file, the report counts 0
   and has no "Changed Files" section; when it reports n > 0 files, the
   report counts n and lists exactly those files in the order reported. *)
C10_FileCountAndList ==
    (GgdReported /\ Succeeded("files")) =>
        LET reported == AnswerTo("files").entries
        IN /\ Output[2].seg = "count"
           /\ Output[2].n = Len(reported)
           /\ TextsOf(Output, "file", 1) = reported
           /\ HasSegment("## Changed Files") <=> (Len(reported) > 0)

\* the same for file names that neither begin nor end with a blank
C10_HoldsForPlainNames ==
    (GgdReported /\ Succeeded("files")
       /\ \A k \in 1..Len(AnswerTo("files").entries) :
             Trim(AnswerTo("files").entries[k]) = AnswerTo("files").entries[k]) =>
        C10_FileCountAndList

----------------------------------------------------------------------------
(* Vocabulary of the handler contract *)

Tools ==
    { "search_files", "find_components", "get_graphql_schemas",
      "get_project_structure", "find_test_files", "get_package_info",
      "get_git_diff", "generate_pr_description", "get_pr_ai_prompt" }

\* the steps whose failure ends a handler
FatalSteps(t) ==
    CASE t = "get_git_diff" -> {"branch", "files"}
      [] t \in {"generate_pr_description", "get_pr_ai_prompt"} -> {"branch", "files", "log"}
      [] OTHER -> {"fs"}

\* the opening words of a handler's error text
ErrorWords(t) ==
    CASE t = "search_files" -> "Error searching files: "
      [] t = "find_components" -> "Error finding components: "
      [] t = "get_graphql_schemas" -> "Error getting GraphQL schemas: "
      [] t = "get_project_structure" -> "Error getting project structure: "
      [] t = "find_test_files" -> "Error finding test files: "
      [] t = "get_package_info" -> "Error getting package info: "
      [] t = "get_git_diff" -> "Error getting git diff: "
      [] t = "generate_pr_description" -> "Error generating PR description: "
      [] t = "get_pr_ai_prompt" -> "Error getting AI prompt: "

(* C7: no handler throws past its boundary; whatever its filesystem,
   parse and subprocess steps answered, a finished handler has returned
   an envelope of exactly one item of type "text", and after the failure
   of a fatal step the text is the handler's error description. *)
C7_HandlersAlwaysReturnOneText ==
    /\ result.outcome # "thrown"
    /\ pc = "done" =>
          /\ tool \in Tools
          /\ result.outcome = "returned"
          /\ Len(result.envelope.content) = 1
          /\ result.envelope.content[1].type = "text"
          /\ DOMAIN result.envelope.content[1] = {"type", "text"}
          /\ (obs.failed \cap FatalSteps(tool) # {}) =>
                Text.kind = "error" /\ Text.prefix = ErrorWords(tool)
          /\ (obs.failed \cap FatalSteps(tool) = {}) => Text.kind # "error"

\* a manifest failed to parse after another one had been taken
C7_Witness ==
    /\ pc = "done"
    /\ tool = "get_package_info"
    /\ "fs" \in obs.failed
    /\ loc.k = 2
    /\ Len(loc.packages) = 1
    /\ Text.kind = "error"

----------------------------------------------------------------------------
(* Vocabulary of the properties of the two pull-request handlers *)

PrTools == {"generate_pr_description", "get_pr_ai_prompt"}

PrDone == tool \in PrTools /\ pc = "done"

\* the call returned the text it assembles
PrAssembled ==
    /\ PrDone
    /\ result.outcome = "returned"
    /\ Text.kind = (IF tool = "generate_pr_description" THEN "description" ELSE "prompt")

(* C11: in get_pr_ai_prompt and generate_pr_description, when the branch
   and changed-file queries succeeded, a failure of the commit-log query
   or of the diff query only leaves the commits or the diff out: the
   call returns the assembled text, not an error text. *)
C11_LogOrDiffFailureDegrades ==
    (PrDone /\ Succeeded("branch") /\ Succeeded("files")
       /\ ({"log", "diff"} \cap obs.failed # {})) =>
        /\ PrAssembled
        /\ "log" \in obs.failed => Text.commitMessages = <<>>
        /\ "diff" \in obs.failed => Text.diffContent = <<>> /\ ~Text.diffShown

\* the part of C11 the handlers keep: a failed diff query is left out
C11_DiffFailureDegrades ==
    (PrDone /\ "diff" \in obs.failed) =>
        PrAssembled /\ Text.diffContent = <<>> /\ ~Text.diffShown

(* C12: in both handlers a failed read of .github/pull_request_template.md
   is not fatal: the handler's built-in template takes its place; a
   successful read gives the file's content; and a non-empty custom
   template given to generate_pr_description is used without the file
   being read. *)
C12_TemplateFallback ==
    /\ (PrDone /\ "template" \in obs.failed) =>
          /\ "diff" \notin obs.failed => PrAssembled
          /\ PrAssembled =>
                Text.prTemplate =
                   (IF tool = "generate_pr_description"
                    THEN "default template of generate_pr_description"
                    ELSE "default template of get_pr_ai_prompt")
    /\ (PrAssembled /\ WasAsked("template") /\ "template" \notin obs.failed) =>
          Text.prTemplate = "content of pull_request_template.md"
    /\ (PrDone /\ tool = "generate_pr_description" /\ Succeeded("log")
          /\ obs.given.template # "") =>
          /\ ~WasAsked("template")
          /\ PrAssembled
          /\ Text.prTemplate = obs.given.template
    /\ (PrDone /\ Succeeded("log")
          /\ (tool = "get_pr_ai_prompt" \/ obs.given.template = "")) =>
          WasAsked("template")

\* the template file could not be read and the diff was asked for
C12_Witness ==
    /\ PrAssembled
    /\ "template" \in obs.failed
    /\ Succeeded("diff")

\* a custom template came with the call
C12_WitnessCustom ==
    /\ PrAssembled
    /\ tool = "generate_pr_description"
    /\ obs.given.template # ""
    /\ ~WasAsked("template")

(* C13: when a ticket identifier comes with a call of get_pr_ai_prompt or
   generate_pr_description, the assembled text has a ticket-reference
   line for it; when none comes, the text has no such line. *)
C13_TicketLine ==
    PrAssembled =>
        IF obs.given.jiraTicket # ""
        THEN "ticket" \in DOMAIN Text /\ Text.ticket = obs.given.jiraTicket
        ELSE "ticket" \notin DOMAIN Text

\* the part of C13 the handlers keep: no ticket, no ticket line
C13_NoTicketNoLine ==
    (PrAssembled /\ obs.given.jiraTicket = "") => "ticket" \notin DOMAIN Text

----------------------------------------------------------------------------
(* Vocabulary of the find_test_files properties *)

TfDone == tool = "find_test_files" /\ pc = "done"

\* the call returned the list of test files
TfListed == TfDone /\ result.outcome = "returned" /\ Text.kind = "tests"

RECURSIVE FilesOfAnswers(_, _)
\* the per-pattern match lists one after the other, patterns in declared order
FilesOfAnswers(answers, k) ==
    IF k > Len(answers) THEN <<>>
    ELSE answers[k].files \o FilesOfAnswers(answers, k + 1)

Range(q) == { q[k] : k \in 1..Len(q) }

\* where an element first stands in a sequence that holds it
FirstIndex(q, x) == CHOOSE k \in 1..Len(q) : q[k] = x /\ \A j \in 1..(k - 1) : q[j] # x

(* C14: the list find_test_files returns holds each path at most once,
   holds exactly the paths of the per-pattern match lists, keeps them in
   the order of their first occurrence in the concatenation of those
   lists, and the reported count is the length of the list. *)
C14_DeduplicatedInFirstOccurrenceOrder ==
    TfListed =>
        LET matched == FilesOfAnswers(obs.answers, 1)
            items == Text.items
        IN /\ Len(obs.answers) = Len(loc.patterns)
           /\ \A i, j \in 1..Len(items) : items[i] = items[j] => i = j
           /\ Range(items) = Range(matched)
           /\ \A i, j \in 1..Len(items) :
                 i < j => FirstIndex(matched, items[i]) < FirstIndex(matched, items[j])
           /\ Text.count = Len(items)

\* two patterns matched the same path, and another path came between
C14_Witness ==
    /\ TfListed
    /\ Len(Text.items) = 2
    /\ Len(FilesOfAnswers(obs.answers, 1)) > 2

\* the paths of a tree that a test type selects
SelectedBy(type, disk) ==
    { f \in disk : \E k \in 1..Len(PatternsFor(type)) :
                      GlobMatches(PatternsFor(type)[k], f) }

(* C15: on one and the same tree, find_test_files returns for each type
   the paths its patterns select, and what it returns for "all" holds
   every path it returns for "unit", "integration" and "e2e". *)
C15_AllCoversTheOtherTypes ==
    TfListed =>
        /\ Range(Text.items) = SelectedBy(args.type, obs.disk)
        /\ args.type = "all" =>
              \A t \in {"unit", "integration", "e2e"} :
                 SelectedBy(t, obs.disk) \subseteq Range(Text.items)

\* "all" on a tree with an e2e file that is no unit test and a file that
\* only "all" selects
C15_Witness ==
    /\ TfListed
    /\ args.type = "all"
    /\ SelectedBy("e2e", obs.disk) \ SelectedBy("unit", obs.disk) # {}
    /\ Range(Text.items) \
          (SelectedBy("unit", obs.disk) \cup SelectedBy("integration", obs.disk)
             \cup SelectedBy("e2e", obs.disk)) # {}

----------------------------------------------------------------------------
(* Vocabulary of the get_package_info properties *)

PiDone == tool = "get_package_info" /\ pc = "done"

\* the call returned the list of packages
PiListed == PiDone /\ result.outcome = "returned" /\ Text.kind = "packages"

\* the turns of the loop: the reads of a manifest among the awaited steps
ManifestReads == { k \in 1..Len(obs.queries) : obs.queries[k][1] = "manifest" }

(* C16: when reading or parsing any package.json the glob matched fails,
   get_package_info returns its error text and no list, whether or not a
   name filter was given and however many manifests were parsed before. *)
C16_OneBadManifestFailsTheCall ==
    (PiDone /\ \E k \in ManifestReads : ~obs.answers[k].ok) =>
        /\ result.outcome = "returned"
        /\ Text.kind = "error"
        /\ Text.prefix = "Error getting package info: "
        /\ DOMAIN Text \cap {"items", "count"} = {}

\* the asked-for package had been parsed and taken when a later manifest
\* turned out malformed
C16_Witness ==
    /\ PiDone
    /\ args.package = "p"
    /\ Len(loc.packages) = 1
    /\ \E k \in ManifestReads : ~obs.answers[k].ok /\ k > 2
    /\ Text.kind = "error"

(* C17: get_package_info with a name that no manifest carries succeeds
   with a count of 0; the reported count is the number of manifests whose
   name is the filter, or of all manifests without a filter. *)
C17_CountOfMatchingManifests ==
    PiListed =>
        LET named == { k \in ManifestReads :
                          args.package = "" \/ obs.answers[k].name = args.package }
        IN /\ Text.count = Cardinality(named)
           /\ Len(Text.items) = Text.count
           /\ Cardinality(ManifestReads) = Len(loc.packageFiles)
           /\ (args.package # "" /\ \A k \in ManifestReads :
                                       obs.answers[k].name # args.package) =>
                 Text.count = 0

\* two manifests were read and none carries the name asked for
C17_Witness ==
    /\ PiListed
    /\ args.package = "zz"
    /\ Cardinality(ManifestReads) = 2
    /\ Text.count = 0

\* a filter that one of two manifests passes
C17_WitnessOne ==
    /\ PiListed
    /\ args.package = "p"
    /\ Cardinality(ManifestReads) = 2
    /\ Text.count = 1

----------------------------------------------------------------------------
(* Vocabulary of the search_files and find_components properties *)

SfListed ==
    tool = "search_files" /\ pc = "done" /\ result.outcome = "returned"
      /\ Text.kind = "files"

FcListed ==
    tool = "find_components" /\ pc = "done" /\ result.outcome = "returned"
      /\ Text.kind = "components"

\* the directories a comma-delimited argument names
DirsOf(directory) == Split(directory, ",")

RECURSIVE GroupsFrom(_, _, _)
\* the per-directory results one group after the other, every path with
\* the directory of its group before it
GroupsFrom(dirs, answers, k) ==
    IF k > Len(dirs) THEN <<>>
    ELSE [j \in 1..Len(answers[k].files) |->
            [dir |-> dirs[k], file |-> answers[k].files[j]]]
           \o GroupsFrom(dirs, answers, k + 1)

RECURSIVE SumOfCounts(_, _)
SumOfCounts(answers, k) ==
    IF k > Len(answers) THEN 0
    ELSE Len(answers[k].files) + SumOfCounts(answers, k + 1)

\* one search per directory in the order given, the groups one after the
\* other with their directory before every path, the count their sum
SearchedPerDirectory ==
    LET dirs == DirsOf(args.directory)
    IN /\ Len(obs.queries) = Len(dirs)
       /\ \A k \in 1..Len(dirs) : obs.queries[k] = << "glob", Trim(dirs[k]) >>
       /\ Text.items = GroupsFrom(dirs, obs.answers, 1)
       /\ Text.count = SumOfCounts(obs.answers, 1)

(* C18: when the directory argument of search_files or find_components is
   a comma-delimited list, each directory is searched separately in the
   order given and the results are concatenated group by group, every
   result with its directory before it, neither deduplicated nor sorted
   anew, the count being the sum of the per-directory counts. *)
C18_DelimitedListSearchedPerDirectory ==
    ((SfListed \/ FcListed) /\ Len(DirsOf(args.directory)) > 1) =>
        SearchedPerDirectory

(* C18 as the handlers have it: find_components does so for every
   directory argument; search_files runs one search under its directory
   argument taken as a single path and returns the matches as they came,
   without a directory before them. *)
C18_OnlyFindComponentsSplits ==
    /\ FcListed => SearchedPerDirectory
    /\ SfListed =>
          /\ obs.queries = << << "glob", args.directory >> >>
          /\ Text.items = obs.answers[1].files
          /\ Text.count = Len(obs.answers[1].files)

\* find_components over "a, b": both directories had two components, the
\* second in another order than the first
C18_Witness ==
    /\ FcListed
    /\ Len(DirsOf(args.directory)) = 2
    /\ Trim(DirsOf(args.directory)[2]) # DirsOf(args.directory)[2]
    /\ Text.count = 4
    /\ obs.answers[1].files # obs.answers[2].files

\* search_files was given a list
C18_WitnessSearchFiles ==
    /\ SfListed
    /\ Len(DirsOf(args.directory)) > 1
    /\ Text.count = 2

----------------------------------------------------------------------------
(* Vocabulary of the startup and concurrency properties *)

\* the startup sequence is over: the server was started or the process ended
StartupOver == proc.step \in {"serving", "exited"}

(* C19: when PROJECT_ROOT is absent at startup, the startup is fatal: the
   process exits with an error before the working directory is changed,
   before any tool is registered and before the server is started. *)
C19_AbsentRootIsFatal ==
    proc.env = NoValue =>
        /\ proc.chdirs = 0
        /\ proc.cwd = LaunchDir
        /\ proc.registered = 0
        /\ ~proc.started
        /\ proc.step \in {"load", "check", "exited"}
        /\ proc.step = "exited" =>
              /\ proc.exitCode # 0
              /\ proc.stderr = "PROJECT_ROOT environment variable is not set"

\* the earlier of the two startup sequences of index.ts has the property
C19_FatalInEarlierSequence == proc.build = "earlier" => C19_AbsentRootIsFatal

\* the sequence in force went on to serve without PROJECT_ROOT
C19_ServingWithoutRoot ==
    /\ proc.env = NoValue
    /\ proc.build = "current"
    /\ proc.step = "serving"
    /\ proc.cwd = HardCodedRoot

RECURSIVE RenderDir(_, _, _, _, _), RenderItems(_, _, _, _, _, _)
\* the walk of one directory by an invocation that runs alone: the lines,
\* or the first failure
RenderDir(w, root, dir, depth, maxDepth) ==
    IF depth >= maxDepth THEN [ok |-> TRUE, lines |-> <<>>, error |-> ""]
    ELSE LET r == ReaddirOf(w, root, root \o dir)
         IN IF r.ok THEN RenderItems(w, root, dir, r.items, depth, maxDepth)
            ELSE [ok |-> FALSE, lines |-> <<>>, error |-> r.error]

RenderItems(w, root, dir, items, depth, maxDepth) ==
    IF items = <<>> THEN [ok |-> TRUE, lines |-> <<>>, error |-> ""]
    ELSE LET item == Head(items)
             itemPath == Append(dir, item)
             st == StatOf(w, root, root \o itemPath)
             line == [indent |-> 2 * depth,
                      marker |-> IF st.isDirectory THEN "dir" ELSE "file",
                      name |-> item, slash |-> st.isDirectory, path |-> itemPath]
             sub == IF st.isDirectory
                    THEN RenderDir(w, root, itemPath, depth + 1, maxDepth)
                    ELSE [ok |-> TRUE, lines |-> <<>>, error |-> ""]
             rest == RenderItems(w, root, dir, Tail(items), depth, maxDepth)
         IN IF item[1] = "." \/ item = NodeModules THEN rest
            ELSE IF ~st.ok THEN [ok |-> FALSE, lines |-> <<>>, error |-> st.error]
            ELSE IF ~sub.ok THEN sub
            ELSE IF ~rest.ok THEN rest
            ELSE [ok |-> TRUE, lines |-> << line >> \o sub.lines \o rest.lines,
                  error |-> ""]

\* what a call returns when no other invocation runs, on the tree as it is
Alone(w, root, a) ==
    LET r == RenderDir(w, root, a.directory, 0, a.maxDepth)
    IN [outcome |-> "returned",
        envelope |-> [content |-> <<
           [type |-> "text",
            text |-> IF r.ok
                     THEN [kind |-> "structure", directory |-> a.directory,
                           lines |-> r.lines]
                     ELSE [kind |-> "error",
                           prefix |-> "Error getting project structure: ",
                           message |-> r.error]] >>]]

(* C20: the working directory is set exactly once, at startup and before
   the server is started, and no handler changes it; whatever the
   interleaving of invocations that run at the same time, each returns
   the envelope it returns when it runs alone on the same tree. *)
C20_InvocationsAreIsolated ==
    /\ proc.chdirs <= 1
    /\ proc.started => (proc.chdirs = 1 /\ proc.cwd = proc.projectPath)
    /\ \A i \in Slots :
          conc.slots[i].pc = "done" =>
             conc.slots[i].result = Alone(conc.world, proc.projectPath, conc.slots[i].args)

\* two invocations overlapped, walked different parts of the tree and
\* both returned a rendering
C20_Witness ==
    /\ conc.overlapped
    /\ \A i \in Slots : conc.slots[i].pc = "done"
    /\ conc.slots[1].args.directory = <<>>
    /\ conc.slots[2].args.directory # <<>>
    /\ conc.slots[1].result.envelope.content[1].text.kind = "structure"
    /\ Len(conc.slots[1].result.envelope.content[1].text.lines) = 2
    /\ conc.slots[2].result.envelope.content[1].text.kind = "structure"
    /\ Len(conc.slots[2].result.envelope.content[1].text.lines) = 1

----------------------------------------------------------------------------
(* Vocabulary of the query order of get_git_diff *)

\* the place of a query in the order branch name, changed files, commit
\* log, diff text
QueryRank(query) ==
    CASE query = "branch" -> 1
      [] query = "files" -> 2
      [] query = "log" -> 3
      [] query = "diff" -> 4

\* the query issued last so far failed
LastFailed == obs.queries # <<>> /\ ~obs.answers[Len(obs.answers)].ok

(* C21: during one get_git_diff invocation the queries are issued in
   the order branch name, changed files, commit log, diff text, each at
   most once; the commit log only with includeCommits and the diff only
   with includeDiff; no query follows a failed branch-name or
   changed-file query; and after a failed commit-log query the diff query
   is still issued when includeDiff is true. *)
C21_QueryOrder ==
    tool = "get_git_diff" =>
        /\ Len(obs.answers) = Len(obs.queries)
        /\ \A k \in 1..Len(obs.queries) :
              obs.queries[k] \in {"branch", "files", "log", "diff"}
        /\ \A j, k \in 1..Len(obs.queries) :
              j < k => QueryRank(obs.queries[j]) < QueryRank(obs.queries[k])
        /\ WasAsked("log") => args.includeCommits
        /\ WasAsked("diff") => args.includeDiff
        /\ \A k \in 1..Len(obs.queries) :
              (obs.queries[k] \in {"branch", "files"} /\ ~obs.answers[k].ok) =>
                 k = Len(obs.queries)
        /\ obs.queries # <<>> => obs.queries[1] = "branch"
        /\ (WasAsked("log") \/ WasAsked("diff")) => Succeeded("files")
        /\ WasAsked("files") => Succeeded("branch")
        /\ pc = "done" =>
              /\ Succeeded("branch") => WasAsked("files")
              /\ Succeeded("files") =>
                    /\ args.includeCommits => WasAsked("log")
                    /\ args.includeDiff => WasAsked("diff")

\* all four queries were issued, the commit log having failed
C21_Witness ==
    /\ GgdDone
    /\ obs.queries = << "branch", "files", "log", "diff" >>
    /\ "log" \in obs.failed
    /\ Succeeded("diff")

\* the changed-file query failed with both flags set, and nothing followed
C21_WitnessStopped ==
    /\ GgdDone
    /\ args.includeCommits
    /\ args.includeDiff
    /\ obs.queries = << "branch", "files" >>
    /\ LastFailed

\* the diff was asked for without the commits
C21_WitnessDiffOnly ==
    /\ GgdDone
    /\ obs.queries = << "branch", "files", "diff" >>

====
